---- MODULE Spec2Model ----
(***************************************************************************)
(* Voice_To_Text.ai: the push-to-talk controller (the useVoiceToText hook), *)
(* the streaming transcriber (DeepgramService, the variant with connection  *)
(* teardown and readiness checks) and the audio source                      *)
(* (AudioCaptureService), as one state machine.                             *)
(*                                                                          *)
(* JavaScript runs one task at a time; the continuation of an await runs    *)
(* as a microtask right after the event that settles the promise.  Every    *)
(* action below is therefore one task (a user command, a socket event, a    *)
(* getUserMedia result, a recorder chunk, a React effect) together with the *)
(* continuations it releases.                                               *)
(*                                                                          *)
(* Texts are sequences of one-character strings, so that joining and        *)
(* trimming are computed and not assumed.                                   *)
(***************************************************************************)
EXTENDS Integers, Sequences, FiniteSets, TLC

\* ------------------------------------------------------------------ bounds
MaxServices == 1   \* DeepgramService instances created (one per credential set)
MaxSockets  == 2   \* LiveClient sockets that are not yet closed
MaxTimers   == 2   \* keep-alive intervals running
MaxStreams  == 2   \* microphone streams / recorders alive
MaxPending  == 1   \* getUserMedia requests in flight
MaxConv     == 1   \* Blob.arrayBuffer() conversions in flight
MaxFinals   == 1   \* final events folded into finalTranscript since it was emptied
MaxSessions == 2   \* startPushToTalk calls
MaxFaults   == 1   \* faults of the platform: socket errors, unasked closes, refused devices
MaxAsks     == 1   \* requestPermission calls of the consumer
MaxFolded   == 3   \* final results handed to handleTranscription in SpecTranscript
MaxChunks   == 4   \* chunks the recorder produces in SpecSend
MaxInFlight == 2   \* Blob.arrayBuffer() conversions in flight in SpecSend

null == 0

\* ------------------------------------------------------------------- texts
SP == " "

\* The transcript texts a socket delivers in the whole-system specification.
WireTexts == { <<"a">> }

\* The transcript texts handed to handleTranscription in SpecTranscript:
\* trimmed ones and ones with leading or trailing white space.
Texts == { <<"a">>, <<"b">>, <<SP, "a">>, <<"b", SP>> }

RECURSIVE TrimStart(_)
TrimStart(s) ==
    IF s = <<>> THEN s
    ELSE IF Head(s) = SP THEN TrimStart(Tail(s)) ELSE s

RECURSIVE TrimEnd(_)
TrimEnd(s) ==
    IF s = <<>> THEN s
    ELSE IF s[Len(s)] = SP THEN TrimEnd(SubSeq(s, 1, Len(s) - 1)) ELSE s

\* String.prototype.trim
Trim(s) == TrimEnd(TrimStart(s))

\* ------------------------------------------------------------------- state
VARIABLES
    apiKey,   \* the apiKey prop of the hook: "" or a credential
    hook,     \* the hook's React state
    refs,     \* deepgramRef.current and isConnectedRef.current
    svc,      \* the DeepgramService instances
    sock,     \* the LiveClient sockets, each with the caller awaiting its connect()
    timers,   \* the running keep-alive intervals: timer -> owning service
    audio,    \* the fields of the AudioCaptureService singleton
    media,    \* the microphone streams with their MediaRecorder
    gum,      \* getUserMedia requests in flight, by the await that waits for them
    conv,     \* arrayBuffer() conversions in flight, in call order
    sched,    \* the mount-time permission query and the pre-connect effect due
    g         \* history: the hold is asserted, the final texts folded since
              \* finalTranscript was emptied, sessions started, faults so far,
              \* permission requests of the consumer so far,
              \* the finalTranscript that the step just taken discarded,
              \* the currentTranscript that the step just taken, a stop of
              \* a running capture, discarded,
              \* the chunks numbered so far (SpecSend numbers the chunks),
              \* the socket the step just taken sent a keep-alive frame on,
              \* the text that the step just taken, a clearTranscript during
              \* a capture, cleared,
              \* the finalTranscript that the startPushToTalk still in flight
              \* discarded

vars == <<apiKey, hook, refs, svc, sock, timers, audio, media, gum, conv, sched, g>>

Services == 1 .. MaxServices
Sockets  == 1 .. MaxSockets
Timers   == 1 .. MaxTimers
Streams  == 1 .. MaxStreams

ApiKeys == { "", "k1" }

\* The program state as one value, so that a handler and the continuations it
\* releases compose as functions.
World ==
    [ apiKey |-> apiKey, hook |-> hook, refs |-> refs, svc |-> svc, sock |-> sock,
      timers |-> timers, audio |-> audio, media |-> media, gum |-> gum,
      conv |-> conv, sched |-> sched ]

Commit(w) ==
    /\ apiKey' = w.apiKey
    /\ hook' = w.hook
    /\ refs' = w.refs
    /\ svc' = w.svc
    /\ sock' = w.sock
    /\ timers' = w.timers
    /\ audio' = w.audio
    /\ media' = w.media
    /\ gum' = w.gum
    /\ conv' = w.conv
    /\ sched' = w.sched

NoService ==
    [ created |-> FALSE, apiKey |-> "", connection |-> null,
      keepAliveInterval |-> null, hasCallbacks |-> FALSE ]

NoSocket ==
    [ state |-> "free", owner |-> null, closeRequested |-> FALSE,
      awaiter |-> "none", heard |-> 0 ]

NoMedia == [ open |-> FALSE, rec |-> "none" ]

NoAudio ==
    [ mediaStream |-> null, audioContext |-> FALSE, mediaRecorder |-> null,
      analyser |-> FALSE, onDataCallback |-> FALSE, onAudioLevelCallback |-> FALSE,
      animationFrameId |-> FALSE ]

FreeSockets(w) == { s \in Sockets : w.sock[s].state = "free" }
FreeTimers(w)  == { t \in Timers : w.timers[t] = null }
FreeStreams(w) == { m \in Streams : w.media[m] = NoMedia }
FreeServices(w) == { i \in Services : ~w.svc[i].created }
Least(S) == CHOOSE x \in S : \A y \in S : x <= y

GumCount(w) == w.gum.permRec + w.gum.permReq + w.gum.mic

\* ------------------------------------------------- the hook's event handlers

\* determineErrorType, on the messages the program produces.
determineErrorType(message) ==
    CASE message = "Microphone access denied. Please grant permission in your browser settings."
            -> "permission"
      [] message = "Deepgram connection error" -> "network"
      [] message = "Deepgram API key is required" -> "api"
      [] message = "No microphone found. Please connect a microphone and try again."
            -> "audio"
      [] message = "Unknown audio capture error" -> "audio"
      [] message = "Audio error: not supported" -> "audio"
      [] OTHER -> "unknown"

\* handleError that also empties finalTranscript.
handleErrorClearing(w, message) ==
    [w EXCEPT !.hook.error = determineErrorType(message),
              !.hook.finalTranscript = <<>>]

handleError(w, message) == [w EXCEPT !.hook.error = determineErrorType(message)]

handleStatusChange(w, status) ==
    IF status = "error"
    THEN [w EXCEPT !.hook.connectionStatus = status,
                   !.hook.isRecording = FALSE,
                   !.hook.isPushToTalkActive = FALSE]
    ELSE [w EXCEPT !.hook.connectionStatus = status]

\* handleTranscription gone wrong in three ways: a final text appended without
\* the separating space, an interim text promoted to finalTranscript, a final
\* result that leaves currentTranscript as it was.
handleTranscriptionUnspaced(w, text, isFinal) ==
    IF isFinal
    THEN [w EXCEPT !.hook.finalTranscript = IF @ # <<>> THEN Trim(@ \o text) ELSE text,
                   !.hook.currentTranscript = <<>>]
    ELSE [w EXCEPT !.hook.currentTranscript = IF @ # text THEN text ELSE @]

handleTranscriptionPromoting(w, text, isFinal) ==
    IF isFinal
    THEN [w EXCEPT !.hook.finalTranscript =
                        IF @ # <<>> THEN Trim(@ \o <<SP>> \o text) ELSE text,
                   !.hook.currentTranscript = <<>>]
    ELSE [w EXCEPT !.hook.finalTranscript =
                        IF @ # <<>> THEN Trim(@ \o <<SP>> \o text) ELSE text,
                   !.hook.currentTranscript = text]

handleTranscriptionKeepingPending(w, text, isFinal) ==
    IF isFinal
    THEN [w EXCEPT !.hook.finalTranscript =
                        IF @ # <<>> THEN Trim(@ \o <<SP>> \o text) ELSE text]
    ELSE [w EXCEPT !.hook.currentTranscript = IF @ # text THEN text ELSE @]

\* handleTranscription that appends an interim text to currentTranscript.
handleTranscriptionAppending(w, text, isFinal) ==
    IF isFinal
    THEN [w EXCEPT !.hook.finalTranscript =
                        IF @ # <<>> THEN Trim(@ \o <<SP>> \o text) ELSE text,
                   !.hook.currentTranscript = <<>>]
    ELSE [w EXCEPT !.hook.currentTranscript = @ \o text]

handleTranscription(w, text, isFinal) ==
    IF isFinal
    THEN [w EXCEPT !.hook.finalTranscript =
                        IF @ # <<>> THEN Trim(@ \o <<SP>> \o text) ELSE text,
                   !.hook.currentTranscript = <<>>]
    ELSE [w EXCEPT !.hook.currentTranscript = IF @ # text THEN text ELSE @]

\* ---------------------------------------------------------- DeepgramService

stopKeepAlive(w, i) ==
    IF w.svc[i].keepAliveInterval # null
    THEN [w EXCEPT !.timers[w.svc[i].keepAliveInterval] = null,
                   !.svc[i].keepAliveInterval = null]
    ELSE w

\* setInterval hands out a new timer; the field is overwritten.
startKeepAlive(w, i) ==
    LET t == Least(FreeTimers(w))
    IN  [w EXCEPT !.timers[t] = i, !.svc[i].keepAliveInterval = t]

\* The callback of the keep-alive interval: the socket it sends a keep-alive
\* frame on, null when it sends none.
keepAliveTick(w, i) == w.svc[i].connection

\* LiveClient.requestClose: asks the server to end the stream; the Close event
\* comes later, as an event of that socket.
requestClose(w, c) == [w EXCEPT !.sock[c].closeRequested = TRUE]

\* getReadyState() === 1
isConnectionOpen(w, i) ==
    /\ w.svc[i].connection # null
    /\ w.sock[w.svc[i].connection].state = "open"

isConnected(w, i) == w.svc[i].connection # null /\ isConnectionOpen(w, i)

\* connect(), up to the point where it returns its promise.  who is the caller
\* that awaits the promise ("rec": startRecording, "pre": preConnect); liveOk
\* is whether listen.live() returns a socket or throws.  The result is the new
\* state and how the promise stands when connect returns.
connect(w, i, who, liveOk) ==
    LET w0 == [w EXCEPT !.svc[i].hasCallbacks = TRUE]
    IN  IF w0.svc[i].apiKey = ""
        THEN [ w |-> handleStatusChange(
                         handleError(w0, "Deepgram API key is required"), "error"),
               out |-> "resolved" ]
        ELSE
          LET c  == w0.svc[i].connection
              w1 == IF c # null
                    THEN [requestClose(stopKeepAlive(w0, i), c)
                             EXCEPT !.svc[i].connection = null]
                    ELSE w0
              w2 == handleStatusChange(w1, "connecting")
          IN  IF liveOk
              THEN LET n == Least(FreeSockets(w2))
                   IN  [ w |-> [w2 EXCEPT
                                  !.sock[n] = [ state |-> "connecting", owner |-> i,
                                                closeRequested |-> FALSE,
                                                awaiter |-> who, heard |-> 0 ],
                                  !.svc[i].connection = n],
                         out |-> "pending" ]
              ELSE [ w |-> handleStatusChange(
                               handleError([w2 EXCEPT !.svc[i].connection = null],
                                           "Failed to connect to Deepgram"),
                               "error"),
                     out |-> "rejected" ]

disconnect(w, i) ==
    LET w1 == stopKeepAlive(w, i)
        c  == w1.svc[i].connection
        w2 == IF c # null
              THEN [requestClose(w1, c) EXCEPT !.svc[i].connection = null]
              ELSE w1
    IN  IF w2.svc[i].hasCallbacks THEN handleStatusChange(w2, "disconnected") ELSE w2

\* sendAudio that starts the conversion whatever the connection is.
sendAudioUnchecked(w, i, tag) ==
    [w EXCEPT !.conv = Append(@, [svc |-> i, tag |-> tag])]

\* sendAudio, up to the arrayBuffer() call: the conversion is queued only when
\* the connection is open.  tag is the capture session the chunk belongs to.
sendAudio(w, i, tag) ==
    IF w.svc[i].connection # null /\ isConnectionOpen(w, i)
    THEN [w EXCEPT !.conv = Append(@, [svc |-> i, tag |-> tag])]
    ELSE w

\* The .then() of arrayBuffer(): the buffer goes to whatever the connection is now.
sendBuffer(w, i, tag) ==
    IF w.svc[i].connection # null /\ isConnectionOpen(w, i)
    THEN [w EXCEPT !.sock[w.svc[i].connection].heard = tag]
    ELSE w

\* ------------------------------------------------------ AudioCaptureService

\* cleanup: the tracks of this.mediaStream are stopped (a recorder on a stream
\* whose tracks ended records nothing more), every field is nulled.
cleanup(w) ==
    LET m == w.audio.mediaStream
    IN  [w EXCEPT !.audio = NoAudio,
                  !.media = IF m # null THEN [@ EXCEPT ![m] = NoMedia] ELSE @]

\* stopCapture that stops the recorder and releases nothing.
stopCaptureHolding(w) ==
    LET r == w.audio.mediaRecorder
    IN  IF r # null /\ w.media[r].rec # "inactive"
        THEN [w EXCEPT !.media[r].rec = "inactive"]
        ELSE w

\* AudioCaptureService.isRecording
isActive(w) ==
    w.audio.mediaRecorder # null /\ w.media[w.audio.mediaRecorder].rec = "recording"

stopCapture(w) ==
    LET r  == w.audio.mediaRecorder
        w1 == IF r # null /\ w.media[r].rec # "inactive"
              THEN [w EXCEPT !.media[r].rec = "inactive"]
              ELSE w
    IN  cleanup(w1)

\* startCapture, up to its await of getUserMedia.
startCaptureCall(w) ==
    [w EXCEPT !.audio.onDataCallback = TRUE,
              !.audio.onAudioLevelCallback = TRUE,
              !.gum.mic = @ + 1]

\* startCapture after getUserMedia returned a stream: the stream, the audio
\* context, the analyser with level monitoring when a level handler is set,
\* and the recorder, started.
startCaptureGranted(w) ==
    LET n == Least(FreeStreams(w))
        level == w.audio.onAudioLevelCallback
    IN  [w EXCEPT !.media[n] = [open |-> TRUE, rec |-> "recording"],
                  !.audio.mediaStream = n,
                  !.audio.audioContext = TRUE,
                  !.audio.analyser = IF level THEN TRUE ELSE @,
                  !.audio.animationFrameId = IF level THEN TRUE ELSE @,
                  !.audio.mediaRecorder = n]

\* The statements of startCapture after getUserMedia that can throw, in order:
\* new AudioContext, the analyser setup, new MediaRecorder, recorder.start.
SetupSteps == { "context", "analyser", "recorder", "start" }

StepNo(step) ==
    CASE step = "context" -> 1 [] step = "analyser" -> 2
      [] step = "recorder" -> 3 [] OTHER -> 4

\* startCapture after getUserMedia returned a stream, up to the statement
\* that throws: what has been acquired when the catch block runs.
startCaptureUpTo(w, step) ==
    LET n == Least(FreeStreams(w))
        level == w.audio.onAudioLevelCallback
        k == StepNo(step)
    IN  [w EXCEPT !.media[n] = [open |-> TRUE, rec |-> IF k > 3 THEN "inactive" ELSE "none"],
                  !.audio.mediaStream = n,
                  !.audio.audioContext = IF k > 1 THEN TRUE ELSE @,
                  !.audio.analyser = IF k > 2 /\ level THEN TRUE ELSE @,
                  !.audio.animationFrameId = IF k > 2 /\ level THEN TRUE ELSE @,
                  !.audio.mediaRecorder = IF k > 3 THEN n ELSE @]

\* AudioCaptureService.handleError: the message for a DOMException name.
audioErrorMessage(name) ==
    CASE name = "NotAllowedError"
            -> "Microphone access denied. Please grant permission in your browser settings."
      [] name = "NotFoundError"
            -> "No microphone found. Please connect a microphone and try again."
      [] name = "NotSupportedError" -> "Audio error: not supported"
      [] OTHER -> "Unknown audio capture error"

GumErrors == { "NotAllowedError" }

\* ------------------------------------------------- the hook's async commands

\* setHasPermission; the pre-connect effect has hasPermission among its
\* dependencies and runs again after a render in which the value changed.
setHasPermission(w, v) ==
    [w EXCEPT !.hook.hasPermission = v,
              !.sched.effectDue = @ \/ (w.hook.hasPermission # v)]

\* requestPermission that reports no error when the answer is a refusal.
requestPermissionDoneSilent(w, granted) ==
    setHasPermission(w, IF granted THEN "true" ELSE "false")

\* The hook's requestPermission after audioCaptureService.requestPermission
\* settled (it opens a stream, stops it at once and never throws).
requestPermissionDone(w, granted) ==
    LET w1 == setHasPermission(w, IF granted THEN "true" ELSE "false")
    IN  IF granted THEN w1 ELSE [w1 EXCEPT !.hook.error = "permission"]

\* What the caller of connect() does once the promise settles.
afterConnect(w, who, ok, message) ==
    CASE who = "pre" -> IF ok THEN [w EXCEPT !.refs.isConnectedRef = TRUE] ELSE w
      [] who = "rec" -> IF ok
                        THEN startCaptureCall([w EXCEPT !.refs.isConnectedRef = TRUE])
                        ELSE handleError(w, message)
      [] OTHER -> w

preConnect(w, liveOk) ==
    IF w.apiKey = "" \/ w.refs.deepgramRef = null \/ w.refs.isConnectedRef
    THEN w
    ELSE LET r == connect(w, w.refs.deepgramRef, "pre", liveOk)
         IN  IF r.out = "resolved" THEN afterConnect(r.w, "pre", TRUE, "") ELSE r.w

\* startRecording from "Connect to Deepgram if not already connected" on.
connectStep(w, liveOk) ==
    IF w.refs.deepgramRef # null /\ ~w.refs.isConnectedRef
    THEN LET r == connect(w, w.refs.deepgramRef, "rec", liveOk)
         IN  CASE r.out = "pending"  -> r.w
               [] r.out = "resolved" -> afterConnect(r.w, "rec", TRUE, "")
               [] OTHER -> afterConnect(r.w, "rec", FALSE, "Failed to connect to Deepgram")
    ELSE startCaptureCall(w)

\* startRecording without its check of the credential.
startRecordingUnchecked(w, liveOk) ==
    IF w.hook.isRecording
    THEN w
    ELSE LET w1 == [w EXCEPT !.hook.error = "null"]
         IN  IF w1.hook.hasPermission = "false"
             THEN [w1 EXCEPT !.gum.permRec = @ + 1]
             ELSE connectStep(w1, liveOk)

\* startRecording, up to its first await that suspends.
startRecording(w, liveOk) ==
    IF w.apiKey = ""
    THEN [w EXCEPT !.hook.error = "api"]
    ELSE IF w.hook.isRecording
    THEN w
    ELSE LET w1 == [w EXCEPT !.hook.error = "null"]
         IN  IF w1.hook.hasPermission = "false"
             THEN [w1 EXCEPT !.gum.permRec = @ + 1]
             ELSE connectStep(w1, liveOk)

\* stopRecording that also disconnects the transcriber.
stopRecordingDisconnecting(w) ==
    LET w1 == [stopCapture(w) EXCEPT !.hook.isRecording = FALSE,
                                     !.hook.currentTranscript = <<>>]
    IN  IF w1.refs.deepgramRef # null
        THEN [disconnect(w1, w1.refs.deepgramRef) EXCEPT !.refs.isConnectedRef = FALSE]
        ELSE w1

\* stopRecording that promotes the pending text instead of dropping it.
stopRecordingPromoting(w) ==
    [stopCapture(w) EXCEPT !.hook.isRecording = FALSE,
                           !.hook.finalTranscript = @ \o w.hook.currentTranscript,
                           !.hook.currentTranscript = <<>>]

stopRecording(w) ==
    [stopCapture(w) EXCEPT !.hook.isRecording = FALSE,
                           !.hook.currentTranscript = <<>>]

\* startPushToTalk without setFinalTranscript('').
startPushToTalkKeeping(w, liveOk) ==
    startRecording([w EXCEPT !.hook.isPushToTalkActive = TRUE], liveOk)

startPushToTalk(w, liveOk) ==
    startRecording([w EXCEPT !.hook.isPushToTalkActive = TRUE,
                             !.hook.finalTranscript = <<>>], liveOk)

stopPushToTalk(w) == stopRecording([w EXCEPT !.hook.isPushToTalkActive = FALSE])

\* clearTranscript that leaves finalTranscript alone.
clearTranscriptPendingOnly(w) == [w EXCEPT !.hook.currentTranscript = <<>>]

clearTranscript(w) ==
    [w EXCEPT !.hook.currentTranscript = <<>>, !.hook.finalTranscript = <<>>]

\* The resources a call of connectStep takes.
ConnectStepFits(w, liveOk) ==
    IF w.refs.deepgramRef # null /\ ~w.refs.isConnectedRef
    THEN IF liveOk THEN FreeSockets(w) # {} ELSE TRUE
    ELSE GumCount(w) < MaxPending

StartRecordingFits(w, liveOk) ==
    \/ w.apiKey = ""
    \/ w.hook.isRecording
    \/ IF w.hook.hasPermission = "false"
       THEN GumCount(w) < MaxPending
       ELSE ConnectStepFits(w, liveOk)

\* Whether the call reaches connect(), and the resources it takes then.
ConnectStepConnects(w) == w.refs.deepgramRef # null /\ ~w.refs.isConnectedRef

StartRecordingConnects(w) ==
    /\ w.apiKey # "" /\ ~w.hook.isRecording /\ w.hook.hasPermission # "false"
    /\ ConnectStepConnects(w)

PreConnectConnects(w) ==
    ~(w.apiKey = "" \/ w.refs.deepgramRef = null \/ w.refs.isConnectedRef)

PreConnectFits(w, liveOk) ==
    PreConnectConnects(w) /\ liveOk => FreeSockets(w) # {}

\* ------------------------------------------------------------------ history

\* Capture sessions are numbered by g.started; sock[s].heard is the session of
\* the audio the server last received on the socket (0: none).  The events of
\* a socket whose audio is all of an ended or superseded session belong to
\* that session.
Stale(s) == sock[s].heard # 0 /\ (~g.live \/ sock[s].heard < g.started)

\* A startRecording that has not finished: it awaits the permission answer,
\* the connection, or the microphone.
Awaiting ==
    \/ gum.permRec > 0
    \/ gum.mic > 0
    \/ \E s \in Sockets : sock[s].awaiter = "rec"

\* The history after a step: g.discarded and g.dropped tell what the step
\* just taken discarded, so every step that discards nothing empties them.
\* g.begun is kept while a startRecording is in flight and through the step
\* that ends it.
Stepped == [g EXCEPT !.discarded = <<>>, !.dropped = <<>>, !.frame = null,
                     !.cleared = <<>>,
                     !.begun = IF Awaiting THEN @ ELSE <<>>]

\* A fault of the platform counts against MaxFaults.
MayFail == g.faults < MaxFaults
Failed == [Stepped EXCEPT !.faults = @ + 1]

\* ------------------------------------------------------------- initial state
Init ==
    /\ apiKey = ""
    /\ hook = [ isRecording |-> FALSE, isPushToTalkActive |-> FALSE,
                connectionStatus |-> "disconnected", error |-> "null",
                currentTranscript |-> <<>>, finalTranscript |-> <<>>,
                hasPermission |-> "null" ]
    /\ refs = [ deepgramRef |-> null, isConnectedRef |-> FALSE ]
    /\ svc = [i \in Services |-> NoService]
    /\ sock = [s \in Sockets |-> NoSocket]
    /\ timers = [t \in Timers |-> null]
    /\ audio = NoAudio
    /\ media = [m \in Streams |-> NoMedia]
    /\ gum = [ permRec |-> 0, permReq |-> 0, mic |-> 0 ]
    /\ conv = <<>>
    /\ sched = [ permCheck |-> TRUE, effectDue |-> FALSE ]
    /\ g = [ live |-> FALSE, finals |-> <<>>, started |-> 0, faults |-> 0,
             asked |-> 0, discarded |-> <<>>, dropped |-> <<>>, chunks |-> 0,
             frame |-> null, cleared |-> <<>>, begun |-> <<>> ]

\* ----------------------------------------------------------- user commands

StartPushToTalkWith(liveOk) ==
    /\ g.started < MaxSessions
    /\ StartRecordingFits(World, liveOk)
    /\ ~liveOk => MayFail /\ StartRecordingConnects(World)
    /\ Commit(startPushToTalk(World, liveOk))
    /\ g' = [(IF liveOk THEN Stepped ELSE Failed)
                EXCEPT !.live = TRUE, !.finals = <<>>, !.started = @ + 1,
                       !.discarded = hook.finalTranscript,
                       !.begun = hook.finalTranscript]

StartPushToTalk == \E liveOk \in BOOLEAN : StartPushToTalkWith(liveOk)

StopPushToTalk ==
    /\ Commit(stopPushToTalk(World))
    /\ g' = [Stepped EXCEPT !.live = FALSE,
                            !.dropped = IF hook.isRecording
                                        THEN hook.currentTranscript ELSE <<>>]

ClearTranscript ==
    /\ Commit(clearTranscript(World))
    /\ g' = [Stepped EXCEPT !.finals = <<>>,
                            !.cleared = IF hook.isRecording
                                        THEN hook.finalTranscript \o hook.currentTranscript
                                        ELSE <<>>]

ClearError ==
    /\ Commit([World EXCEPT !.hook.error = "null"])
    /\ g' = Stepped

RequestPermission ==
    /\ g.asked < MaxAsks
    /\ GumCount(World) < MaxPending
    /\ Commit([World EXCEPT !.gum.permReq = @ + 1])
    /\ g' = [Stepped EXCEPT !.asked = @ + 1]

\* The apiKey prop changes: the service effect's cleanup (disconnect the
\* previous service, isConnectedRef := false), the effect itself (a new service
\* when the key is not empty) and the pre-connect effect, in that order.
SetApiKeyTo(k, liveOk) ==
    LET w0 == World
        w1 == IF w0.refs.deepgramRef # null
              THEN disconnect(w0, w0.refs.deepgramRef) ELSE w0
        w2 == [w1 EXCEPT !.refs.isConnectedRef = FALSE, !.apiKey = k]
        n  == Least(FreeServices(w2))
        w3 == IF k # ""
              THEN [w2 EXCEPT !.svc[n] = [NoService EXCEPT !.created = TRUE,
                                                           !.apiKey = k],
                              !.refs.deepgramRef = n]
              ELSE w2
        w4 == [w3 EXCEPT !.sched.effectDue = FALSE]
    IN  /\ k # apiKey
        /\ k # "" => FreeServices(w0) # {}
        /\ k # "" => PreConnectFits(w3, liveOk)
        /\ ~liveOk => /\ MayFail
                      /\ k # "" /\ w4.hook.hasPermission # "false"
                      /\ PreConnectConnects(w4)
        /\ Commit(IF k # "" /\ w4.hook.hasPermission # "false"
                  THEN preConnect(w4, liveOk) ELSE w4)
        /\ g' = IF liveOk THEN Stepped ELSE Failed

SetApiKey == \E k \in ApiKeys, liveOk \in BOOLEAN : SetApiKeyTo(k, liveOk)

\* ------------------------------------------------------------ React effects

\* What navigator.permissions.query finds for the microphone: one of the
\* three states of the Permissions API, or the query throws because the
\* browser does not support it.
PermissionStates == { "granted", "denied", "prompt", "unsupported" }

\* AudioCaptureService.checkPermission: whether the state is 'granted';
\* false when the query throws.
checkPermission(state) == state # "unsupported" /\ state = "granted"

\* checkPermission().then(setHasPermission), started on mount.
CheckPermissionSettlesWith(state) ==
    /\ sched.permCheck
    /\ Commit(setHasPermission([World EXCEPT !.sched.permCheck = FALSE],
                               IF checkPermission(state) THEN "true" ELSE "false"))
    /\ g' = Stepped

CheckPermissionSettles == \E state \in PermissionStates : CheckPermissionSettlesWith(state)

\* The pre-connect effect, run again because hasPermission changed.
PreConnectEffectWith(liveOk) ==
    LET w0 == [World EXCEPT !.sched.effectDue = FALSE]
    IN  /\ sched.effectDue
        /\ PreConnectFits(w0, liveOk)
        /\ ~liveOk => /\ MayFail
                      /\ w0.hook.hasPermission # "false"
                      /\ PreConnectConnects(w0)
        /\ Commit(IF w0.apiKey # "" /\ w0.hook.hasPermission # "false"
                  THEN preConnect(w0, liveOk) ELSE w0)
        /\ g' = IF liveOk THEN Stepped ELSE Failed

PreConnectEffect == \E liveOk \in BOOLEAN : PreConnectEffectWith(liveOk)

\* -------------------------------------------------------- getUserMedia results

\* The getUserMedia of a requestPermission the user asked for.
PermissionAnswered ==
    \E granted \in BOOLEAN :
        /\ gum.permReq > 0
        /\ Commit(requestPermissionDone([World EXCEPT !.gum.permReq = @ - 1], granted))
        /\ g' = Stepped

\* The getUserMedia of the requestPermission inside startRecording, and the
\* rest of startRecording when it was granted.
RecordingPermissionAnswered ==
    \E granted \in BOOLEAN, liveOk \in BOOLEAN :
        LET w1 == requestPermissionDone([World EXCEPT !.gum.permRec = @ - 1], granted)
        IN  /\ gum.permRec > 0
            /\ granted => ConnectStepFits(w1, liveOk)
            /\ ~liveOk => MayFail /\ granted /\ ConnectStepConnects(w1)
            /\ Commit(IF granted THEN connectStep(w1, liveOk) ELSE w1)
            /\ g' = IF liveOk THEN Stepped ELSE Failed

\* The getUserMedia of startCapture returns a stream: the rest of startCapture,
\* then setIsRecording(true) in startRecording.
CaptureStarted ==
    LET w1 == [World EXCEPT !.gum.mic = @ - 1]
    IN  /\ gum.mic > 0
        /\ FreeStreams(w1) # {}
        /\ Commit([startCaptureGranted(w1) EXCEPT !.hook.isRecording = TRUE])
        /\ g' = Stepped

\* The getUserMedia of startCapture fails: cleanup, and the catch of startRecording.
CaptureFailed ==
    \E name \in GumErrors :
        /\ gum.mic > 0
        /\ MayFail
        /\ Commit(handleError(cleanup([World EXCEPT !.gum.mic = @ - 1]),
                              audioErrorMessage(name)))
        /\ g' = Failed

\* The getUserMedia of startCapture returns a stream and a later statement of
\* startCapture throws: the catch block of startCapture (cleanup), then the
\* catch of startRecording.
CaptureSetupFailed ==
    \E step \in SetupSteps :
        LET w1 == [World EXCEPT !.gum.mic = @ - 1]
        IN  /\ gum.mic > 0
            /\ MayFail
            /\ FreeStreams(w1) # {}
            /\ Commit(handleError(cleanup(startCaptureUpTo(w1, step)),
                                  audioErrorMessage("NotSupportedError")))
            /\ g' = Failed

\* ---------------------------------------------------------------- recorder

\* ondataavailable of a running recorder, with a chunk that is not empty.
Chunk ==
    \E m \in Streams :
        LET i == refs.deepgramRef
        IN  /\ media[m].open /\ media[m].rec = "recording"
            /\ Len(conv) < MaxConv
            /\ audio.onDataCallback /\ i # null
            /\ Commit(sendAudio(World, i, g.started))
            /\ g' = Stepped

\* An arrayBuffer() conversion completes.
ConversionDone ==
    \E k \in 1 .. Len(conv) :
        LET w1 == [World EXCEPT !.conv = SubSeq(@, 1, k - 1) \o SubSeq(@, k + 1, Len(@))]
        IN  /\ Commit(sendBuffer(w1, conv[k].svc, conv[k].tag))
            /\ g' = Stepped

\* ------------------------------------------------------------ socket events

SocketOpenOn(s) ==
    LET i  == sock[s].owner
        w1 == IF svc[i].hasCallbacks
              THEN handleStatusChange(World, "connected") ELSE World
        w2 == startKeepAlive(w1, i)
        w3 == [w2 EXCEPT !.sock[s].state = "open", !.sock[s].awaiter = "none"]
    IN  /\ sock[s].state = "connecting"
        /\ FreeTimers(World) # {}
        /\ sock[s].awaiter = "rec" => GumCount(World) < MaxPending
        /\ Commit(afterConnect(w3, sock[s].awaiter, TRUE, ""))
        /\ g' = Stepped

SocketOpen == \E s \in Sockets : SocketOpenOn(s)

\* The Error event with a handler that keeps this.connection.
SocketErrorOnKeeping(s) ==
    LET i  == sock[s].owner
        w2 == IF svc[i].hasCallbacks
              THEN handleStatusChange(
                       handleError(World, "Deepgram connection error"), "error")
              ELSE World
        w3 == [w2 EXCEPT !.sock[s].state = "errored", !.sock[s].awaiter = "none"]
    IN  /\ sock[s].state \in { "connecting", "open" }
        /\ MayFail
        /\ Commit(afterConnect(w3, sock[s].awaiter, FALSE, "Failed to start recording"))
        /\ g' = Failed

\* The Error event with a handler that does not reject the promise.
SocketErrorOnSilent(s) ==
    LET i  == sock[s].owner
        w1 == [World EXCEPT !.svc[i].connection = null]
        w2 == IF svc[i].hasCallbacks
              THEN handleStatusChange(
                       handleError(w1, "Deepgram connection error"), "error")
              ELSE w1
    IN  /\ sock[s].state \in { "connecting", "open" }
        /\ MayFail
        /\ Commit([w2 EXCEPT !.sock[s].state = "errored"])
        /\ g' = Failed

\* The Error event.  The SDK emits a plain object, so the rejection reaches the
\* catch of startRecording as 'Failed to start recording'.
SocketErrorOn(s) ==
    LET i  == sock[s].owner
        w1 == [World EXCEPT !.svc[i].connection = null]
        w2 == IF svc[i].hasCallbacks
              THEN handleStatusChange(
                       handleError(w1, "Deepgram connection error"), "error")
              ELSE w1
        w3 == [w2 EXCEPT !.sock[s].state = "errored", !.sock[s].awaiter = "none"]
    IN  /\ sock[s].state \in { "connecting", "open" }
        /\ MayFail
        /\ Commit(afterConnect(w3, sock[s].awaiter, FALSE, "Failed to start recording"))
        /\ g' = Failed

SocketError == \E s \in Sockets : SocketErrorOn(s)

\* The Close event: of an open socket (asked for with requestClose, or closed by
\* the server on its own, which is a fault), or the one that follows an Error.
SocketCloseOn(s) ==
    LET i  == sock[s].owner
        w1 == [stopKeepAlive(World, i) EXCEPT !.svc[i].connection = null]
        w2 == IF svc[i].hasCallbacks
              THEN handleStatusChange(w1, "disconnected") ELSE w1
        asked == sock[s].state = "errored" \/ sock[s].closeRequested
    IN  /\ sock[s].state \in { "open", "errored" }
        /\ ~asked => MayFail
        /\ Commit([w2 EXCEPT !.sock[s] = NoSocket])
        /\ g' = IF asked THEN Stepped ELSE Failed

SocketClose == \E s \in Sockets : SocketCloseOn(s)

\* A keep-alive interval fires.
KeepAliveTickOn(t) ==
    /\ timers[t] # null
    /\ Commit(World)
    /\ g' = [Stepped EXCEPT !.frame = keepAliveTick(World, timers[t])]

KeepAliveTick == \E t \in Timers : KeepAliveTickOn(t)

\* The Transcript handler of a socket, on a message with the given transcript
\* and finality flags.
\* A field that the message does not carry.
Absent == <<>>

\* The confidences a message carries: none, or a number in hundredths.
Confidences == { Absent, <<0>>, <<87>> }

\* The results the handler builds from the message: none when the transcript
\* is empty or absent, else one.  A flag the message does not carry counts as
\* false, an absent (or zero) confidence gives 0.
transcriptionResultsFinalOnly(text, is_final, speech_final, confidence) ==
    IF text = <<>> THEN <<>>
    ELSE << [ text |-> text, isFinal |-> is_final,
              confidence |-> IF confidence = Absent THEN 0 ELSE confidence[1] ] >>

transcriptionResults(text, is_final, speech_final, confidence) ==
    IF text = <<>> THEN <<>>
    ELSE << [ text |-> text, isFinal |-> is_final \/ speech_final,
              confidence |-> IF confidence = Absent THEN 0 ELSE confidence[1] ] >>

\* The hook reads text and isFinal of a result.
onTranscriptionCalls(w, i, results) ==
    IF results # <<>> /\ w.svc[i].hasCallbacks
    THEN handleTranscription(w, results[1].text, results[1].isFinal)
    ELSE w

onTranscript(w, i, text, is_final, speech_final) ==
    onTranscriptionCalls(w, i, transcriptionResults(text, is_final, speech_final, Absent))

\* The Transcript event.  The server transcribes audio it received; the event
\* belongs to the capture session of that audio.
SocketTranscriptOn(s, text, is_final, speech_final) ==
    LET final == text # <<>> /\ (is_final \/ speech_final)
    IN  /\ sock[s].state = "open"
        /\ sock[s].heard # 0
        /\ final => Len(g.finals) < MaxFinals
        /\ Commit(onTranscript(World, sock[s].owner, text, is_final, speech_final))
        /\ g' = [Stepped EXCEPT !.finals = IF final THEN Append(@, text) ELSE @]

SocketTranscript ==
    \E s \in Sockets, text \in WireTexts \cup { <<>> },
       is_final \in BOOLEAN, speech_final \in BOOLEAN :
        SocketTranscriptOn(s, text, is_final, speech_final)

\* ------------------------------------------------------------ specifications

Next ==
    \/ StartPushToTalk
    \/ StopPushToTalk
    \/ ClearTranscript
    \/ ClearError
    \/ RequestPermission
    \/ SetApiKey
    \/ CheckPermissionSettles
    \/ PreConnectEffect
    \/ PermissionAnswered
    \/ RecordingPermissionAnswered
    \/ CaptureStarted
    \/ CaptureFailed
    \/ CaptureSetupFailed
    \/ Chunk
    \/ ConversionDone
    \/ SocketOpen
    \/ SocketError
    \/ SocketClose
    \/ SocketTranscript

Spec == Init /\ [][Next]_vars

\* ---------------------------------------------- the connection with its timers

\* The commands and events that make, replace and end connections, with the
\* ticks of the keep-alive intervals.  A tick changes nothing the program
\* keeps; g.frame tells the socket it sent its frame on.
NextKeepAlive ==
    \/ SetApiKey
    \/ CheckPermissionSettles
    \/ PreConnectEffect
    \/ StartPushToTalk
    \/ StopPushToTalk
    \/ CaptureStarted
    \/ SocketOpen
    \/ SocketError
    \/ SocketClose
    \/ KeepAliveTick

SpecKeepAlive == Init /\ [][NextKeepAlive]_vars

\* ------------------------------------------------- the audio path on its own

\* A capture in progress: the key is set, the pre-connect went through, the
\* hold is asserted and the recorder runs (a state Spec reaches).
InitCapturing ==
    /\ apiKey = "k1"
    /\ hook = [ isRecording |-> TRUE, isPushToTalkActive |-> TRUE,
                connectionStatus |-> "connected", error |-> "null",
                currentTranscript |-> <<>>, finalTranscript |-> <<>>,
                hasPermission |-> "true" ]
    /\ refs = [ deepgramRef |-> 1, isConnectedRef |-> TRUE ]
    /\ svc = [i \in Services |->
                IF i = 1
                THEN [NoService EXCEPT !.created = TRUE, !.apiKey = "k1",
                                       !.connection = 1, !.keepAliveInterval = 1,
                                       !.hasCallbacks = TRUE]
                ELSE NoService]
    /\ sock = [s \in Sockets |->
                 IF s = 1
                 THEN [NoSocket EXCEPT !.state = "open", !.owner = 1]
                 ELSE NoSocket]
    /\ timers = [t \in Timers |-> IF t = 1 THEN 1 ELSE null]
    /\ audio = [ mediaStream |-> 1, audioContext |-> TRUE, mediaRecorder |-> 1,
                 analyser |-> TRUE, onDataCallback |-> TRUE,
                 onAudioLevelCallback |-> TRUE, animationFrameId |-> TRUE ]
    /\ media = [m \in Streams |->
                  IF m = 1 THEN [open |-> TRUE, rec |-> "recording"] ELSE NoMedia]
    /\ gum = [ permRec |-> 0, permReq |-> 0, mic |-> 0 ]
    /\ conv = <<>>
    /\ sched = [ permCheck |-> FALSE, effectDue |-> FALSE ]
    /\ g = [ live |-> TRUE, finals |-> <<>>, started |-> 1, faults |-> 0,
             asked |-> 0, discarded |-> <<>>, dropped |-> <<>>, chunks |-> 0,
             frame |-> null, cleared |-> <<>>, begun |-> <<>> ]

\* ondataavailable, with the chunks numbered in the order the recorder
\* produces them; up to MaxInFlight conversions run at a time.
NumberedChunk ==
    \E m \in Streams :
        LET i == refs.deepgramRef
        IN  /\ media[m].open /\ media[m].rec = "recording"
            /\ g.chunks < MaxChunks
            /\ Len(conv) < MaxInFlight
            /\ audio.onDataCallback /\ i # null
            /\ Commit(sendAudio(World, i, g.chunks + 1))
            /\ g' = [Stepped EXCEPT !.chunks = @ + 1]

NextSend ==
    \/ NumberedChunk
    \/ ConversionDone
    \/ SocketTranscript
    \/ StopPushToTalk

SpecSend == InitCapturing /\ [][NextSend]_vars

\* ------------------------------------------------ the transcript on its own

\* handleTranscription called with a result, as the Transcript handler of any
\* connection calls it: the text is not empty.
TranscriptionResult(text, isFinal) ==
    /\ isFinal => Len(g.finals) < MaxFolded
    /\ Commit(handleTranscription(World, text, isFinal))
    /\ g' = [Stepped EXCEPT !.finals = IF isFinal THEN Append(@, text) ELSE @]

HandleTranscription ==
    \E text \in Texts, isFinal \in BOOLEAN : TranscriptionResult(text, isFinal)

NextTranscript ==
    \/ HandleTranscription
    \/ ClearTranscript

SpecTranscript == Init /\ [][NextTranscript]_vars

\* ------------------------------------------------------------------ claims

\* The texts joined in order by single spaces.
RECURSIVE Join(_)
Join(texts) ==
    IF texts = <<>> THEN <<>>
    ELSE IF Len(texts) = 1 THEN texts[1]
    ELSE texts[1] \o <<SP>> \o Join(Tail(texts))

\* A text that is not empty and has no white space at either end.
Clean(text) == text # <<>> /\ Trim(text) = text

\* C1, as amended: when finalTranscript starts empty and only final results
\* follow, each with a text that is not empty and carries no leading or
\* trailing white space, finalTranscript is the texts joined in arrival order
\* by single spaces.
C1_CleanFinalsFoldToJoin ==
    (\A k \in 1 .. Len(g.finals) : Clean(g.finals[k]))
        => hook.finalTranscript = Join(g.finals)

\* C1, as stated: after final results e1..en applied to an empty
\* finalTranscript, finalTranscript is the texts joined in arrival order by
\* single spaces and trimmed, whatever the texts are.
C1_FinalsFoldToTrimmedJoin == hook.finalTranscript = Trim(Join(g.finals))

C1_ThreeCleanFinalsFolded ==
    /\ g.finals = << <<"a">>, <<"b">>, <<"a">> >>
    /\ hook.finalTranscript = <<"a", SP, "b", SP, "a">>

\* A Transcript message with a text that yields an interim result.
InterimEvent ==
    \E s \in Sockets, text \in WireTexts : SocketTranscriptOn(s, text, FALSE, FALSE)

\* A Transcript message with a text that yields a final result.
FinalEvent ==
    \E s \in Sockets, text \in WireTexts, is_final \in BOOLEAN, speech_final \in BOOLEAN :
        /\ is_final \/ speech_final
        /\ SocketTranscriptOn(s, text, is_final, speech_final)

\* C2: in every reachable state, handling an interim result leaves
\* finalTranscript exactly as it was.
C2_InterimKeepsCommitted ==
    [][InterimEvent => hook'.finalTranscript = hook.finalTranscript]_vars

\* An interim result was handled after a final one: both are held.
C2_InterimAfterFinal ==
    /\ hook.finalTranscript = <<"a">>
    /\ hook.currentTranscript = <<"a">>

\* C3: in every reachable state, whatever currentTranscript holds and whether
\* or not the hook is recording, currentTranscript is empty right after a final
\* result is handled.
C3_FinalClearsPending ==
    [][FinalEvent => hook'.currentTranscript = <<>>]_vars

\* A final result was handled while the hook was not recording.
C3_FinalHandledWhileIdle ==
    /\ g.finals = << <<"a">> >>
    /\ hook.finalTranscript = <<"a">>
    /\ hook.currentTranscript = <<>>
    /\ ~hook.isRecording

\* A Transcript message of a socket all of whose audio is of a capture session
\* that has ended or was superseded, arriving while the hook is not recording.
StaleEvent ==
    \E s \in Sockets, text \in WireTexts, is_final \in BOOLEAN, speech_final \in BOOLEAN :
        /\ Stale(s)
        /\ ~hook.isRecording
        /\ SocketTranscriptOn(s, text, is_final, speech_final)

\* C4, as stated: a transcript event of a capture session that has already
\* ended changes neither finalTranscript nor currentTranscript.
C4_StaleEventIsNoOp ==
    [][StaleEvent => /\ hook'.finalTranscript = hook.finalTranscript
                     /\ hook'.currentTranscript = hook.currentTranscript]_vars

\* C5, as amended: startPushToTalk empties finalTranscript; the text of the
\* earlier push-to-talk sessions is discarded when a new one begins.
C5_StartEmptiesCommitted ==
    [][StartPushToTalk => hook'.finalTranscript = <<>>]_vars

\* C5, as stated: startPushToTalk leaves finalTranscript as it was.
C5_StartKeepsCommitted ==
    [][StartPushToTalk => hook'.finalTranscript = hook.finalTranscript]_vars

\* startPushToTalk has just run on a finalTranscript that was not empty, with
\* a credential.
C5_StartedOverCommitted ==
    /\ g.discarded = <<"a">>
    /\ apiKey # ""
    /\ hook.finalTranscript = <<>>

\* What startPushToTalk without a credential does, given what it is to leave
\* in finalTranscript: the 'api' error, isRecording as it was, no connect (the
\* services, the sockets, the timers, the refs and the connection status are
\* untouched), no audio start (no getUserMedia, the capture service and the
\* streams are untouched), currentTranscript as it was.
NoCredentialStart(committed) ==
    (apiKey = "" /\ StartPushToTalk)
        => /\ hook'.error = "api"
           /\ hook'.isRecording = hook.isRecording
           /\ hook'.connectionStatus = hook.connectionStatus
           /\ svc' = svc /\ sock' = sock /\ timers' = timers /\ refs' = refs
           /\ gum' = gum /\ audio' = audio /\ media' = media /\ conv' = conv
           /\ hook'.currentTranscript = hook.currentTranscript
           /\ hook'.finalTranscript = committed

\* C6, as amended: startPushToTalk without a credential sets the 'api' error,
\* leaves isRecording false, attempts no connect and no audio start, leaves
\* currentTranscript as it was and empties finalTranscript.
C6_NoCredentialStartEmptiesCommitted == [][NoCredentialStart(<<>>)]_vars

\* C6, as stated: the same, with finalTranscript unchanged.
C6_NoCredentialStartChangesNothing == [][NoCredentialStart(hook.finalTranscript)]_vars

\* startPushToTalk has just run without a credential on a finalTranscript
\* that was not empty.
C6_StartedWithoutCredential ==
    /\ apiKey = ""
    /\ g.discarded = <<"a">>
    /\ hook.error = "api"
    /\ hook.finalTranscript = <<>>
    /\ ~hook.isRecording

\* The Error event of the service's current connection while the hook is
\* recording.
FailedWhileCapturing ==
    \E s \in Sockets :
        /\ hook.isRecording
        /\ SocketErrorOn(s)
        /\ svc[sock[s].owner].connection = s

\* C7, as stated: when the transcriber reports 'error' while the hook is
\* recording, the hook stops recording, the error is set, finalTranscript is
\* unchanged and the audio capture is stopped: no stream is open.
C7_FailedStopsCapture ==
    [][FailedWhileCapturing => /\ ~hook'.isRecording
                               /\ hook'.error # "null"
                               /\ hook'.finalTranscript = hook.finalTranscript
                               /\ audio'.mediaStream = null
                               /\ \A m \in Streams : ~media'[m].open]_vars

\* C8, as stated: after connect() replaced a connection, the service keeps
\* referencing the new socket; the Close event of the old socket, which
\* connect() asked to close, leaves that reference alone.
C8_OneLiveConnection ==
    [][\A s \in Sockets :
         (/\ SocketCloseOn(s)
          /\ sock[s].closeRequested
          /\ svc[sock[s].owner].connection \notin { null, s })
             => svc'[sock[s].owner].connection = svc[sock[s].owner].connection]_vars

\* The service the hook holds has an open connection.
TranscriberConnected ==
    refs.deepgramRef # null /\ isConnected(World, refs.deepgramRef)

\* C9, as stated, for a transcriber that reported 'disconnected' or 'error':
\* a startRecording that gets past the credential, the isRecording and the
\* permission checks while the transcriber is not connected calls connect()
\* (a socket awaited by startRecording appears, or the connect fails at once)
\* and does not start the audio capture before the connect settles.
C9_ConnectsWhenNotConnected ==
    [][(/\ StartPushToTalk
        /\ apiKey # "" /\ ~hook.isRecording /\ hook.hasPermission # "false"
        /\ ~TranscriberConnected
        /\ hook.connectionStatus \in { "disconnected", "error" })
           => /\ gum'.mic = gum.mic
              /\ \/ \E s \in Sockets : sock[s].state = "free" /\ sock'[s].awaiter = "rec"
                 \/ hook'.connectionStatus = "error"]_vars

\* C10, as stated: when the startCapture of a startPushToTalk settles after
\* stopPushToTalk was called, the hook is not recording.
C10_NoCaptureAfterRelease ==
    [][(CaptureStarted /\ ~g.live) => ~hook'.isRecording]_vars

\* C11, as stated, for a stopCapture that runs while startCapture awaits
\* getUserMedia (cleanup has emptied the handlers the call had set): when the
\* getUserMedia then returns its stream, no microphone stream is left open.
C11_StopDuringStartReleasesStream ==
    [][(CaptureStarted /\ ~g.live /\ ~audio.onDataCallback)
          => \A m \in Streams : ~media'[m].open]_vars

\* An earlier startRecording has not finished: it awaits the permission
\* answer, the connection, or the microphone.
InFlight ==
    \/ gum.permRec > 0
    \/ gum.mic > 0
    \/ \E s \in Sockets : sock[s].awaiter = "rec"

\* C12, as stated: startPushToTalk while capturing, or while an earlier
\* startRecording is in flight, changes no hook state (committed text
\* included), requests no second microphone stream and issues no second
\* connect().
C12_SecondStartIsIgnored ==
    [][(StartPushToTalk /\ apiKey # "" /\ (hook.isRecording \/ InFlight))
          => /\ hook' = hook
             /\ svc' = svc /\ sock' = sock /\ timers' = timers
             /\ gum' = gum /\ media' = media]_vars

\* C13, as stated: stopCapture releases the stream the AudioSource holds, so
\* after every stopPushToTalk no microphone stream is open, and at most one
\* stream is ever open.
C13_StopReleasesEveryStream ==
    [][(StopPushToTalk /\ gum.mic = 0) => \A m \in Streams : ~media'[m].open]_vars

\* C14, as stated: isRecording turns true only when the credential is
\* present, permission is not refused, the transcriber is connected and the
\* AudioSource has started a stream.
C14_CapturingOnlyWhenReady ==
    [][(~hook.isRecording /\ hook'.isRecording)
          => /\ apiKey' # ""
             /\ hook'.hasPermission # "false"
             /\ TranscriberConnected'
             /\ audio'.mediaStream # null /\ media'[audio'.mediaStream].open]_vars

\* C15, as stated: a pre-connect that fails (its socket emits Error before
\* any recording was ever started) leaves the consumer-visible error as it
\* was.
C15_PreConnectFailureKeepsError ==
    [][\A s \in Sockets :
          (SocketErrorOn(s) /\ sock[s].awaiter = "pre" /\ g.started = 0)
             => hook'.error = hook.error]_vars

\* C16: stopPushToTalk, in any state, closes no connection and stops no
\* keep-alive: the service, its sockets and timers, the connected flag and
\* the reported connection status are left as they were; so a transcriber
\* that was connected is still connected, with its keep-alive running.
C16_StopKeepsConnection ==
    [][StopPushToTalk
          => /\ svc' = svc /\ sock' = sock /\ timers' = timers
             /\ refs' = refs
             /\ hook'.connectionStatus = hook.connectionStatus
             /\ TranscriberConnected => TranscriberConnected']_vars

\* A running capture with pending text was just stopped, and the transcriber
\* is connected with its keep-alive running.
C16_StoppedAndStillConnected ==
    /\ g.dropped # <<>>
    /\ TranscriberConnected
    /\ svc[refs.deepgramRef].keepAliveInterval # null
    /\ hook.connectionStatus = "connected"

\* C17: stopPushToTalk while capturing leaves the pending text empty and the
\* committed text as it was.
C17_StopDropsPendingKeepsCommitted ==
    [][(StopPushToTalk /\ hook.isRecording)
          => /\ hook'.currentTranscript = <<>>
             /\ hook'.finalTranscript = hook.finalTranscript]_vars

\* A running capture with pending text and committed text was just stopped.
C17_StoppedWithPendingAndCommitted ==
    /\ g.dropped # <<>>
    /\ hook.finalTranscript # <<>>
    /\ hook.currentTranscript = <<>>
    /\ ~hook.isRecording

\* C18, as stated: stopPushToTalk while idle (not capturing, no start in
\* flight) changes neither the capture state, the pending or committed text,
\* the connection state, nor the AudioSource.
C18_IdleStopIsNoOp ==
    [][(StopPushToTalk /\ ~hook.isRecording /\ ~InFlight)
          => /\ hook'.isRecording = hook.isRecording
             /\ hook'.currentTranscript = hook.currentTranscript
             /\ hook'.finalTranscript = hook.finalTranscript
             /\ hook'.connectionStatus = hook.connectionStatus
             /\ svc' = svc /\ sock' = sock
             /\ audio' = audio /\ media' = media]_vars

\* A startPushToTalk that passes startRecording's guards.
GuardedStart == StartPushToTalk /\ apiKey # "" /\ ~hook.isRecording

C20_ResolvedMeansConnected ==
    [][\A s \in Sockets :
          (SocketOpenOn(s) /\ sock[s].awaiter # "none")
             => hook'.connectionStatus = "connected" /\ TranscriberConnected']_vars

\* C21, as stated: once disconnect() was called (the apiKey was cleared, so
\* the service effect's cleanup disconnected the service and nothing connects
\* it again), no transcript event and no error or status callback of the
\* service reaches the hook: the socket events that follow leave the hook as
\* it was.
C21_NoCallbackAfterDisconnect ==
    [][(apiKey = "" /\ (SocketTranscript \/ SocketError \/ SocketClose \/ SocketOpen))
          => hook' = hook]_vars

\* The transitions of the reported connection state that the state machine
\* has without a connect() call: Connecting -> Connected, Connecting or
\* Connected -> Failed, Connected -> Disconnected.
Reported(from, to) ==
    \/ from = "connecting" /\ to \in { "connected", "error" }
    \/ from = "connected" /\ to \in { "error", "disconnected" }

\* C22, as stated, for the socket events (each reports one state and none of
\* them is a connect() call): the state an event reports follows the last
\* reported one by a transition of the state machine.
C22_EventsFollowStateMachine ==
    [][(SocketOpen \/ SocketError \/ SocketClose)
          => \/ hook'.connectionStatus = hook.connectionStatus
             \/ Reported(hook.connectionStatus, hook'.connectionStatus)]_vars

C25_TransmittedInOrder ==
    [][\A s \in Sockets : sock'[s].heard # 0 => sock'[s].heard >= sock[s].heard]_vars

\* C28, as stated: when startCapture fails, at getUserMedia or at a later
\* statement, the AudioSource holds nothing afterwards (no stream, audio
\* context, analyser, recorder, level timer or handler) and no microphone
\* stream is open.
C28_FailedStartReleasesAll ==
    [][(CaptureFailed \/ CaptureSetupFailed)
          => /\ audio' = NoAudio
             /\ \A m \in Streams : ~media'[m].open]_vars

\* C26, as stated: a tick of a keep-alive timer sends a frame only while the
\* timer's service is connected.
C26_KeepAliveOnlyWhileConnected ==
    [][\A t \in Timers :
          (KeepAliveTickOn(t) /\ g'.frame # null) => isConnected(World, timers[t])]_vars

\* C27: a message with an empty or absent transcript yields no result; any
\* other message yields exactly one, with the message's transcript, isFinal
\* true exactly when is_final or speech_final is, and the message's
\* confidence, 0 when it carries none.  And the hook receives just that: a
\* Transcript event without text leaves the hook as it was, one with text
\* acts on the hook as handleTranscription of that text and that finality.
C27_OneResultPerMessage ==
    /\ \A text \in WireTexts \cup { <<>> }, is_final \in BOOLEAN,
          speech_final \in BOOLEAN, confidence \in Confidences :
          LET r == transcriptionResults(text, is_final, speech_final, confidence)
          IN  IF text = <<>>
              THEN r = <<>>
              ELSE /\ Len(r) = 1
                   /\ r[1].text = text
                   /\ r[1].isFinal = (is_final \/ speech_final)
                   /\ r[1].confidence = IF confidence = Absent THEN 0 ELSE confidence[1]
    /\ [][\A s \in Sockets, text \in WireTexts \cup { <<>> },
             is_final \in BOOLEAN, speech_final \in BOOLEAN :
             SocketTranscriptOn(s, text, is_final, speech_final)
                => hook' = IF text = <<>> THEN hook
                           ELSE handleTranscription(World, text,
                                                    is_final \/ speech_final).hook]_vars

\* During a capture a Transcript event with text, final by one of its flags,
\* has yielded its one result: the text is folded into finalTranscript.
C27_SpeechFinalFolded ==
    /\ g.finals = << <<"a">> >>
    /\ hook.finalTranscript = <<"a">>
    /\ hook.currentTranscript = <<>>
    /\ hook.isRecording

\* C29: stopCapture leaves the AudioSource holding nothing (no stream, timer,
\* handler or recorder, so isRecording() is false) with the stream it held
\* released; a second stopCapture right after changes nothing; and on an
\* AudioSource that holds nothing it changes nothing.
C29_StopCaptureIdempotent ==
    [][StopPushToTalk
          => /\ audio' = NoAudio
             /\ audio.mediaStream # null => ~media'[audio.mediaStream].open
             /\ ~isActive(World)'
             /\ stopCapture(World)' = World'
             /\ audio = NoAudio => media' = media]_vars

\* A running capture was just stopped: the AudioSource holds nothing and no
\* stream is open.
C29_StoppedAndReleased ==
    /\ g.dropped # <<>>
    /\ audio = NoAudio
    /\ \A m \in Streams : ~media[m].open

\* C30: clearTranscript leaves currentTranscript and finalTranscript empty
\* and everything else as it was.
C30_ClearEmptiesBothOnly ==
    [][ClearTranscript
          => /\ hook' = [hook EXCEPT !.currentTranscript = <<>>,
                                     !.finalTranscript = <<>>]
             /\ UNCHANGED <<apiKey, refs, svc, sock, timers, audio, media,
                            gum, conv, sched>>]_vars

\* clearTranscript has just cleared text during a capture on a connected
\* transcriber.
C30_ClearedWhileCapturing ==
    /\ g.cleared # <<>>
    /\ hook.currentTranscript = <<>> /\ hook.finalTranscript = <<>>
    /\ hook.isRecording /\ hook.connectionStatus = "connected"

\* A step in which something fails: a fault of the platform (listen.live()
\* throws, a socket emits Error or closes unasked, getUserMedia or a later
\* statement of startCapture throws), or the permission request of a
\* startRecording is refused.
Failing ==
    \/ g'.faults = g.faults + 1
    \/ RecordingPermissionAnswered /\ hook'.hasPermission = "false"

\* C31, as amended: no failure handling touches finalTranscript.  A step in
\* which the connection or the microphone fails, or the permission is
\* refused, leaves finalTranscript as it was before the step, except that a
\* startPushToTalk whose connect() fails at once leaves it empty, as every
\* startPushToTalk does: the text that startPushToTalk discarded at its start
\* is not restored when the attempt aborts.
C31_FailureKeepsCommitted ==
    [][Failing => hook'.finalTranscript =
                     IF StartPushToTalk THEN <<>> ELSE hook.finalTranscript]_vars

\* C31, as stated: when a startPushToTalk aborts because the connection or the
\* microphone fails, finalTranscript is what it was before the startPushToTalk
\* began.
C31_AbortRestoresCommitted ==
    [][(Failing /\ Awaiting /\ g.begun # <<>>) => hook'.finalTranscript = g.begun]_vars

\* A socket that carried audio has failed while the hook held committed
\* text: the text is still there.
C31_FailedWithCommitted ==
    \E s \in Sockets :
        /\ sock[s].state = "errored" /\ sock[s].heard # 0
        /\ hook.connectionStatus = "error" /\ hook.error = "network"
        /\ g.faults = 1
        /\ hook.finalTranscript = <<"a">>

\* C32: an interim result with text t leaves currentTranscript equal to t,
\* whatever it held before; and a final result that follows interim ones on
\* an empty finalTranscript leaves currentTranscript empty and finalTranscript
\* equal to its text.
C32_InterimReplacesPending ==
    [][\A text \in Texts :
          /\ TranscriptionResult(text, FALSE)
                => /\ hook'.currentTranscript = text
                   /\ hook'.finalTranscript = hook.finalTranscript
          /\ (TranscriptionResult(text, TRUE) /\ hook.finalTranscript = <<>>)
                => /\ hook'.currentTranscript = <<>>
                   /\ hook'.finalTranscript = text]_vars

\* An interim result was handled after a final one: currentTranscript is the
\* interim text as it came, finalTranscript the final text.
C32_InterimHeldAfterFinal ==
    /\ g.finals = << <<"b">> >>
    /\ hook.finalTranscript = <<"b">>
    /\ hook.currentTranscript = <<SP, "a">>

\* C33, as stated: the permission query on mount leaves hasPermission false
\* only when the platform's answer is 'denied'.
C33_DeniedOnlyWhenRefused ==
    [][\A state \in PermissionStates :
          (CheckPermissionSettlesWith(state) /\ hook'.hasPermission = "false")
             => state = "denied"]_vars

\* The connects of preConnect whose promise is still pending.
PreWarms == { s \in Sockets : sock[s].state = "connecting" /\ sock[s].awaiter = "pre" }

\* C34, as stated: when the apiKey becomes a credential while hasPermission is
\* not false, the hook starts a connect() of its own (a socket awaited by
\* preConnect appears, or the connect fails at once); while hasPermission is
\* false or the apiKey is empty the effects start none; and at most one
\* connect of preConnect is in flight at a time.
C34_OnePreWarmPerCredential ==
    [][/\ (SetApiKey /\ apiKey' # "" /\ hook.hasPermission # "false")
             => \/ \E s \in Sockets : sock[s].state = "free" /\ sock'[s].awaiter = "pre"
                \/ hook'.connectionStatus = "error"
       /\ ((SetApiKey \/ PreConnectEffect)
              /\ (apiKey' = "" \/ hook.hasPermission = "false"))
             => \A s \in Sockets : sock'[s].state = "connecting" => sock[s].state = "connecting"
       /\ Cardinality(PreWarms') <= 1]_vars

\* C35, as stated: connectionStatus is 'connected' exactly when the service
\* the hook holds has an open connection.
C35_StatusMirrorsTranscriber ==
    (hook.connectionStatus = "connected") <=> TranscriberConnected

\* ------------------------------------------ connections made and settled

\* The commands and events that make, replace, drop and end connections.
NextSettle ==
    \/ SetApiKey
    \/ CheckPermissionSettles
    \/ PreConnectEffect
    \/ StartPushToTalk
    \/ StopPushToTalk
    \/ RecordingPermissionAnswered
    \/ CaptureStarted
    \/ SocketOpen
    \/ SocketError
    \/ SocketClose

\* The platform delivers its events: a socket that is connecting opens or
\* fails, a pending getUserMedia is answered.
FairDelivery ==
    /\ \A s \in Sockets : WF_vars(SocketOpenOn(s) \/ SocketErrorOn(s))
    /\ WF_vars(RecordingPermissionAnswered)
    /\ WF_vars(CaptureStarted)

SpecSettle == Init /\ [][NextSettle]_vars /\ FairDelivery

C37_DroppedSocketEventsAreIgnored ==
    [][\A s \in Sockets :
          ((SocketCloseOn(s) \/ SocketErrorOn(s)) /\ svc[sock[s].owner].connection # s)
             => /\ svc'[sock[s].owner].connection = svc[sock[s].owner].connection
                /\ svc'[sock[s].owner].keepAliveInterval = svc[sock[s].owner].keepAliveInterval
                /\ timers' = timers
                /\ hook'.connectionStatus = hook.connectionStatus]_vars

\* The keep-alive timers of a service that are running.
RunningTimers(i) == { t \in Timers : timers[t] = i }

\* C38, as stated: at most one keep-alive timer of a service is running, none
\* is running while the service holds no connection, and every running timer
\* is the one its service tracks in keepAliveInterval.
C38_OneTrackedKeepAlive ==
    \A i \in Services :
        /\ Cardinality(RunningTimers(i)) <= 1
        /\ svc[i].connection = null => RunningTimers(i) = {}
        /\ \A t \in RunningTimers(i) : svc[i].keepAliveInterval = t

\* C39, as stated: when the apiKey changes the service the hook held is
\* disconnected (no connection, no keep-alive timer) and isConnectedRef is
\* false; and when a connect() made on that service before the change
\* completes after it, isConnectedRef is true only if the service the hook
\* holds now is connected.
C39_ConnectedFlagFollowsCredential ==
    [][/\ (SetApiKey /\ refs.deepgramRef # null)
             => /\ svc'[refs.deepgramRef].connection = null
                /\ RunningTimers(refs.deepgramRef)' = {}
                /\ ~refs'.isConnectedRef
       /\ \A s \in Sockets :
             (SocketOpenOn(s) /\ sock[s].closeRequested /\ apiKey = "")
                => (refs'.isConnectedRef => TranscriberConnected')]_vars

====
